---- MODULE Spec2Model ----
(***************************************************************************)
(* Model of the LinkedIn content generation pipeline:                      *)
(*   app/agents/content_agent.py  (ContentGenerationAgent: the five stage   *)
(*       nodes, the graph, generate_content, generate_multiple_variations)  *)
(*   app/agents/workflows.py      (WorkflowNodes: the five nodes chained    *)
(*       along get_workflow_edges, quality gate, hashtag extraction)        *)
(* Texts are sequences of one-character strings, so that the regular        *)
(* expression scan, lower(), split(), capitalize(), len() and the substring *)
(* tests are computed as the code computes them.  The text-generation       *)
(* collaborator (self.llm) is the environment: every call either raises     *)
(* with an error message or returns a text.  The graph executor hands each  *)
(* node the accumulated state as a mapping and merges the mapping the node  *)
(* returns into it before the next node runs.                               *)
(* The web application around the pipeline is modelled too:                 *)
(*   app/api/routes/content.py   (generate, regenerate, delete)             *)
(*   app/api/routes/approval.py  (approve_content and the background task   *)
(*       post_to_linkedin_background)                                       *)
(*   app/services/telegram_service.py (the button and message handlers)     *)
(* with the contents and linkedin_posts tables of app/models/database.py.   *)
(***************************************************************************)
EXTENDS Integers, Sequences, FiniteSets, TLC

VARIABLES
    entry,      \* which public method was called: "generate_content",
                \* "generate_multiple_variations", or a pure-function harness
    args,       \* the caller's arguments [company_info, topic, style, variations]
    runs,       \* sequence of pipeline runs (one per generate_content coroutine)
    llm,        \* the shared ChatOpenAI client: [temperature]
    loop,       \* generate_multiple_variations: position and loop locals
    returned,   \* what the entry method handed to its caller
    fn,         \* pure-function harness: input and output of the last call
    db,         \* the database: [contents, linkedin_posts]
    background_tasks,   \* post_to_linkedin_background tasks queued by approve_content
    user_sessions,      \* TelegramService.user_sessions of the one chat
    linkedin,   \* the invocations of linkedin_service.post_content, in order
    telegram,   \* the texts sent to the chat for approval
    http        \* the requests served so far and the last response

appVars == <<db, background_tasks, user_sessions, linkedin, telegram, http>>

vars == <<entry, args, runs, llm, loop, returned, fn, appVars>>

\* the web application is not running: nothing stored, queued or sent
AppIdle ==
    /\ db = [contents |-> <<>>, linkedin_posts |-> <<>>]
    /\ background_tasks = <<>>
    /\ user_sessions = [c \in {} |-> 0]
    /\ linkedin = <<>>
    /\ telegram = <<>>
    /\ http = <<>>

-----------------------------------------------------------------------------
(* Characters and strings *)

LowerLetters == <<"a", "b", "c", "d", "e", "f", "g", "h", "i", "j", "k", "l", "m",
                  "n", "o", "p", "q", "r", "s", "t", "u", "v", "w", "x", "y", "z">>
UpperLetters == <<"A", "B", "C", "D", "E", "F", "G", "H", "I", "J", "K", "L", "M",
                  "N", "O", "P", "Q", "R", "S", "T", "U", "V", "W", "X", "Y", "Z">>
Digits == {"0", "1", "2", "3", "4", "5", "6", "7", "8", "9"}

Range(s) == {s[i] : i \in 1..Len(s)}

\* Python None.  It is not a text: no text has an element of several characters.
None == <<"None">>

\* Python truthiness of an Optional[str] / list: None, "" and [] are falsy.
Truthy(x) == x # None /\ x # <<>>

\* str.lower() / str.upper() on one character
LowerChar(c) ==
    IF \E i \in 1..Len(UpperLetters) : UpperLetters[i] = c
    THEN LowerLetters[CHOOSE i \in 1..Len(UpperLetters) : UpperLetters[i] = c]
    ELSE c

UpperChar(c) ==
    IF \E i \in 1..Len(LowerLetters) : LowerLetters[i] = c
    THEN UpperLetters[CHOOSE i \in 1..Len(LowerLetters) : LowerLetters[i] = c]
    ELSE c

\* str.lower()
Lower(s) == [i \in 1..Len(s) |-> LowerChar(s[i])]

\* str.capitalize(): first character upper-cased, the rest lower-cased
Capitalize(w) == [i \in 1..Len(w) |-> IF i = 1 THEN UpperChar(w[i]) ELSE LowerChar(w[i])]

\* regular expression class \w
IsWordChar(c) == c \in Range(LowerLetters) \cup Range(UpperLetters) \cup Digits \cup {"_"}

\* str.split() separators
IsSpace(c) == c \in {" ", "\n", "\t"}

\* `k in s` for strings: k occurs in s as a substring
Contains(s, k) ==
    \E i \in 1..(Len(s) - Len(k) + 1) : SubSeq(s, i, i + Len(k) - 1) = k

\* s[:n]
Take(s, n) == SubSeq(s, 1, IF Len(s) < n THEN Len(s) ELSE n)

\* str.split(): the maximal runs of non-whitespace characters, in order
RECURSIVE SplitFrom(_, _, _)
SplitFrom(s, i, word) ==
    IF i > Len(s) THEN (IF word = <<>> THEN <<>> ELSE <<word>>)
    ELSE IF IsSpace(s[i])
         THEN (IF word = <<>> THEN <<>> ELSE <<word>>) \o SplitFrom(s, i + 1, <<>>)
         ELSE SplitFrom(s, i + 1, Append(word, s[i]))

Split(s) == SplitFrom(s, 1, <<>>)

-----------------------------------------------------------------------------
(* Hashtags *)

\* list(...)[:5]
MaxHashtags == 5
\* topic_keywords[:3]
FallbackTopicWords == 3

\* end (exclusive) of the maximal run of \w characters starting at i
RECURSIVE WordEnd(_, _)
WordEnd(s, i) == IF i <= Len(s) /\ IsWordChar(s[i]) THEN WordEnd(s, i + 1) ELSE i

\* re.findall(r'#(\w+)', content): the non-overlapping matches, left to right
RECURSIVE FindAllFrom(_, _)
FindAllFrom(s, i) ==
    IF i > Len(s) THEN <<>>
    ELSE IF s[i] = "#" /\ WordEnd(s, i + 1) > i + 1
         THEN <<SubSeq(s, i + 1, WordEnd(s, i + 1) - 1)>> \o FindAllFrom(s, WordEnd(s, i + 1))
         ELSE FindAllFrom(s, i + 1)

FindAll(content) == FindAllFrom(content, 1)

\* list(set(xs)): the elements of the set in the iteration order of a Python
\* set of strings, which depends on the per-process string hash seed: any
\* order of the distinct elements.
ListOfSet(S) ==
    {p \in [1..Cardinality(S) -> S] : \A i, j \in 1..Cardinality(S) : p[i] = p[j] => i = j}

\* The distinct elements of xs in order of first occurrence
RECURSIVE DedupFrom(_, _)
DedupFrom(xs, seen) ==
    IF xs = <<>> THEN <<>>
    ELSE IF Head(xs) \in seen THEN DedupFrom(Tail(xs), seen)
         ELSE <<Head(xs)>> \o DedupFrom(Tail(xs), seen \cup {Head(xs)})

FirstOccurrences(xs) == DedupFrom(xs, {})

\* _extract_hashtags(content): every list that list(set(hashtags))[:5] can be
ExtractHashtags(content) ==
    {Take(p, MaxHashtags) : p \in ListOfSet(Range(FindAll(content)))}

BaseHashtags == << <<"L", "i", "n", "k", "e", "d", "I", "n">>,
                   <<"P", "r", "o", "f", "e", "s", "s", "i", "o", "n", "a", "l">>,
                   <<"B", "u", "s", "i", "n", "e", "s", "s">> >>

\* a plausible slip: the base tags are not prepended
GenerateFallbackHashtagsNoBase(topic) ==
    LET topic_keywords == Take(Split(Lower(topic)), FallbackTopicWords)
    IN  [i \in 1..Len(topic_keywords) |-> Capitalize(topic_keywords[i])]

\* _generate_fallback_hashtags(topic)
GenerateFallbackHashtags(topic) ==
    LET topic_keywords == Take(Split(Lower(topic)), FallbackTopicWords)
    IN  BaseHashtags \o [i \in 1..Len(topic_keywords) |-> Capitalize(topic_keywords[i])]

-----------------------------------------------------------------------------
(* The collaborator and the inputs *)

Empty == <<>>
TextHi == <<"H", "i">>
TextTags == <<"#", "a", " ", "#", "b">>
ErrTimeout == <<"t", "i", "m", "e", "o", "u", "t">>

\* texts the collaborator may return in a single generate_content call
RichTexts == {Empty, TextHi, TextTags}
\* texts the collaborator may return to the concurrent variation runs
VariationTexts == {Empty}
ErrorTexts == {ErrTimeout}

TopicAI == <<"a", "I">>
TopicLong == <<"D", "a", "t", "a", " ", " ", "i", "s", "\n", "t", "h", "e", " ", "o", "i", "l">>
Topics == {Empty, TopicAI, TopicLong}
CompanyInfos == {<<"A", "c", "m", "e">>}
Styles == {"professional"}

\* upper bound on the `variations` argument
MaxVariations == 2

\* ChatOpenAI(temperature=0.7), in tenths
DefaultTemperature == 7
\* min(0.7 + (i * 0.1), 0.9), in tenths
TemperatureStep == 1
TemperatureCap == 9

Texts == IF entry = "generate_multiple_variations" THEN VariationTexts ELSE RichTexts

\* what a call `await chain.ainvoke({})` can do: return a message or raise
Responses ==
    [ok : {TRUE}, content : Texts] \cup [ok : {FALSE}, error : ErrorTexts]

-----------------------------------------------------------------------------
(* The state mapping of a run and the stage nodes of ContentGenerationAgent *)

\* state.get(key, default)
Get(state, key, default) == IF key \in DOMAIN state THEN state[key] ELSE default

\* a plausible slip: the node's mapping is dropped instead of being merged
MergeDropsUpdate(state, update) == state

\* the executor's merge of a node's returned mapping into the state
Merge(state, update) ==
    [k \in DOMAIN state \cup DOMAIN update |->
        IF k \in DOMAIN update THEN update[k] ELSE state[k]]

\* AgentState(...).dict(): the declared fields; undeclared keyword arguments
\* (target_audience, content_length) are not fields of the model
InitialState(company_info, topic, style) ==
    [company_info |-> company_info, topic |-> topic, style |-> style,
     draft_content |-> Empty, final_content |-> Empty, image_prompt |-> Empty,
     hashtags |-> <<>>, status |-> "started", error |-> None]

RunningPcs == {"research_topic", "generate_draft", "generate_image_prompt",
               "review_content", "finalize_content"}

\* _build_graph: the edges
NextNode(node) ==
    CASE node = "START" -> "research_topic"
      [] node = "research_topic" -> "generate_draft"
      [] node = "generate_draft" -> "generate_image_prompt"
      [] node = "generate_image_prompt" -> "review_content"
      [] node = "review_content" -> "finalize_content"
      [] node = "finalize_content" -> "END"

\* list(self.graph.nodes)
GraphNodes == <<"research_topic", "generate_draft", "generate_image_prompt",
                "review_content", "finalize_content">>

ResearchUnavailable == <<"R", "e", "s", "e", "a", "r", "c", "h", " ", "u", "n", "a", "v",
                         "a", "i", "l", "a", "b", "l", "e", ":", " ">>
ContentGenerationFailed == <<"C", "o", "n", "t", "e", "n", "t", " ", "g", "e", "n", "e",
                             "r", "a", "t", "i", "o", "n", " ", "f", "a", "i", "l", "e",
                             "d", ":", " ">>
ProfessionalImage == <<"P", "r", "o", "f", "e", "s", "s", "i", "o", "n", "a", "l", " ",
                       "b", "u", "s", "i", "n", "e", "s", "s", " ", "i", "m", "a", "g",
                       "e", " ", "r", "e", "l", "a", "t", "e", "d", " ", "t", "o", " ">>
ContentUnavailable == <<"C", "o", "n", "t", "e", "n", "t", " ", "u", "n", "a", "v", "a",
                        "i", "l", "a", "b", "l", "e">>
NoContentGenerated == <<"N", "o", " ", "c", "o", "n", "t", "e", "n", "t", " ", "g", "e",
                        "n", "e", "r", "a", "t", "e", "d", " ", "i", "n", " ", "t", "h",
                        "e", " ", "w", "o", "r", "k", "f", "l", "o", "w">>

\* a plausible slip: the Research node normalises the topic in the state
ResearchTopicUpdateRewritesTopic(state, r) ==
    IF r.ok
    THEN [research_notes |-> r.content, status |-> "researched",
          topic |-> Lower(state["topic"])]
    ELSE [research_notes |-> ResearchUnavailable \o r.error,
          status |-> "research_failed", error |-> r.error,
          topic |-> Lower(state["topic"])]

\* research_topic: the mapping the node returns for collaborator outcome r
ResearchTopicUpdate(state, r) ==
    IF r.ok
    THEN [research_notes |-> r.content, status |-> "researched"]
    ELSE [research_notes |-> ResearchUnavailable \o r.error,
          status |-> "research_failed", error |-> r.error]

\* generate_draft: hashtags is the list _extract_hashtags(content) returned
GenerateDraftUpdate(state, r, hashtags) ==
    IF r.ok
    THEN [draft_content |-> r.content, hashtags |-> hashtags, status |-> "draft_generated"]
    ELSE [draft_content |-> ContentGenerationFailed \o r.error,
          status |-> "draft_failed", error |-> r.error]

\* generate_image_prompt
GenerateImagePromptUpdate(state, r) ==
    IF r.ok
    THEN [image_prompt |-> r.content, status |-> "image_prompt_generated"]
    ELSE [image_prompt |-> ProfessionalImage \o state["topic"],
          status |-> "image_prompt_fallback", error |-> r.error]

ReviewPolished == <<"Content reviewed and polished">>

\* a plausible slip: the Review node hands the draft over and clears it
ReviewContentUpdateClearsDraft(state, r) ==
    IF r.ok
    THEN [final_content |-> r.content, draft_content |-> Empty,
          review_notes |-> ReviewPolished, status |-> "content_reviewed"]
    ELSE [final_content |-> Get(state, "draft_content", ContentUnavailable),
          draft_content |-> Empty,
          review_notes |-> <<"Review failed: ">> \o r.error,
          status |-> "review_failed", error |-> r.error]

\* review_content
ReviewContentUpdate(state, r) ==
    IF r.ok
    THEN [final_content |-> r.content, review_notes |-> ReviewPolished,
          status |-> "content_reviewed"]
    ELSE [final_content |-> Get(state, "draft_content", ContentUnavailable),
          review_notes |-> <<"Review failed: ">> \o r.error,
          status |-> "review_failed", error |-> r.error]

\* a plausible slip: the draft is not considered when final_content is empty
FinalOrDraftNoDraft(state) == Get(state, "final_content", None)

\* a plausible slip: the draft is preferred to the reviewed text
FinalOrDraftPrefersDraft(state) ==
    IF Truthy(Get(state, "draft_content", None))
    THEN state["draft_content"]
    ELSE Get(state, "final_content", None)

\* state.get('final_content') or state.get('draft_content')
FinalOrDraft(state) ==
    IF Truthy(Get(state, "final_content", None))
    THEN state["final_content"]
    ELSE Get(state, "draft_content", None)

\* finalize_content: the hashtags of the returned mapping
FinalizeHashtags(state) ==
    IF Truthy(Get(state, "hashtags", <<>>))
    THEN Get(state, "hashtags", <<>>)
    ELSE GenerateFallbackHashtags(state["topic"])

\* a plausible slip: the check `if not final_content: raise` is missing
FinalizeRaisesNever(state) == FALSE

\* finalize_content: raises ValueError("No content generated in the workflow")
FinalizeRaises(state) == ~Truthy(FinalOrDraft(state))

\* a plausible slip: finalize_content returns no status
FinalizeContentUpdateNoStatus(state) ==
    [final_content |-> FinalOrDraft(state),
     hashtags |-> FinalizeHashtags(state),
     image_prompt |-> Get(state, "image_prompt", None),
     completed_at |-> "now"]

\* finalize_content: the mapping the node returns when it does not raise
FinalizeContentUpdate(state) ==
    [final_content |-> FinalOrDraft(state),
     hashtags |-> FinalizeHashtags(state),
     image_prompt |-> Get(state, "image_prompt", None),
     status |-> "completed",
     completed_at |-> "now"]

\* generate_content: the result object built from the graph's final state
SuccessResult(final_state, topic, style) ==
    [final_content |-> final_state["final_content"],
     draft_content |-> Get(final_state, "draft_content", Empty),
     hashtags |-> Get(final_state, "hashtags", <<>>),
     image_prompt |-> Get(final_state, "image_prompt", None),
     status |-> Get(final_state, "status", "completed"),
     metadata |-> [topic |-> topic, style |-> style, content_length |-> "medium",
                   generated_at |-> "now", workflow_steps |-> GraphNodes]]

\* generate_content: the result object built by `except Exception as e`
FailedResult(e) ==
    [final_content |-> ContentGenerationFailed \o e,
     draft_content |-> Empty,
     hashtags |-> <<>>,
     image_prompt |-> None,
     status |-> "failed",
     metadata |-> [error |-> e, generated_at |-> "now"]]

\* a plausible slip: generate_content has no `except` and the error propagates
OutcomeOfRaisePropagate(e) == [raised |-> TRUE, exception |-> e]

\* generate_content: what the coroutine hands back when the graph raised e
OutcomeOfRaise(e) == [raised |-> FALSE, result |-> FailedResult(e)]

-----------------------------------------------------------------------------
(* WorkflowNodes: the quality gate and the Review node that uses it *)

\* 100 <= len(content) <= 2000
MinContentLength == 100
MaxContentLength == 2000
\* quality_score >= 0.6, in tenths
QualityThreshold == 6

CompanyKeywords == {<<"w", "e">>, <<"o", "u", "r">>,
                    <<"c", "o", "m", "p", "a", "n", "y">>, <<"t", "e", "a", "m">>}
EngagementKeywords == {<<"?">>, <<"c", "o", "m", "m", "e", "n", "t">>,
                       <<"s", "h", "a", "r", "e">>,
                       <<"t", "h", "o", "u", "g", "h", "t", "s">>}

\* a plausible slip: the length bounds are exclusive
AppropriateLengthExclusive(content) ==
    MinContentLength < Len(content) /\ Len(content) < MaxContentLength

\* checks["appropriate_length"]
AppropriateLength(content) ==
    MinContentLength <= Len(content) /\ Len(content) <= MaxContentLength

\* the `checks` dict of _perform_quality_check
QualityChecks(content) ==
    [has_company_reference |-> \E keyword \in CompanyKeywords : Contains(Lower(content), keyword),
     has_engagement_element |-> \E keyword \in EngagementKeywords : Contains(Lower(content), keyword),
     appropriate_length |-> AppropriateLength(content),
     has_hashtags |-> Contains(content, <<"#">>)]

\* AIMessage.content is a str or a list of content blocks; a list is not a
\* text: no text has an element of several characters
ContentBlocks == <<"[content blocks]">>
IsText(content) == content \notin {None, ContentBlocks}

\* str(e) of the AttributeError raised by content.lower() on a list
ErrNoLower == <<"'", "l", "i", "s", "t", "'", " ", "o", "b", "j", "e", "c", "t", " ",
                "h", "a", "s", " ", "n", "o", " ", "a", "t", "t", "r", "i", "b", "u",
                "t", "e", " ", "'", "l", "o", "w", "e", "r", "'">>

\* a plausible slip: a check that could not be completed rejects
QualityCheckIncompleteRejects(e) ==
    [is_acceptable |-> FALSE,
     score |-> <<1, 2>>,
     feedback |-> <<"Quality check incomplete: ">> \o e,
     detailed_checks |-> [c \in {} |-> TRUE]]

\* _perform_quality_check: the mapping returned by `except Exception as e`;
\* the score 0.5 is kept as the pair <<1, 2>>
QualityCheckIncomplete(e) ==
    [is_acceptable |-> TRUE,
     score |-> <<1, 2>>,
     feedback |-> <<"Quality check incomplete: ">> \o e,
     detailed_checks |-> [c \in {} |-> TRUE]]

\* _perform_quality_check(content, company_info); the score passed/total is
\* kept as the pair of its numerator and denominator.  content.lower()
\* raises inside the try when content is not a str.
PerformQualityCheck(content, company_info) ==
    IF ~IsText(content) THEN QualityCheckIncomplete(ErrNoLower)
    ELSE
    LET checks == QualityChecks(content)
        passed_checks == Cardinality({c \in DOMAIN checks : checks[c]})
        total_checks == Cardinality(DOMAIN checks)
    IN  [is_acceptable |-> passed_checks * 10 >= QualityThreshold * total_checks,
         score |-> <<passed_checks, total_checks>>,
         feedback |-> <<"Quality score. Checks passed: ", ToString(passed_checks), "/",
                        ToString(total_checks)>>,
         detailed_checks |-> checks]

MarkerReviewed == <<"\n", "\n", "[", "C", "o", "n", "t", "e", "n", "t", " ", "r", "e", "v",
                    "i", "e", "w", "e", "d", " ", "f", "o", "r", " ", "a", "c", "c", "u",
                    "r", "a", "c", "y", "]">>
MarkerIncomplete == <<"\n", "\n", "[", "C", "o", "n", "t", "e", "n", "t", " ", "r", "e", "v",
                      "i", "e", "w", " ", "i", "n", "c", "o", "m", "p", "l", "e", "t", "e",
                      "]">>
Markers == {MarkerReviewed, MarkerIncomplete}

\* the values of workflow_step
TopicResearchStep == <<"t", "o", "p", "i", "c", "_", "r", "e", "s", "e", "a", "r",
                       "c", "h">>
ContentDraftingStep == <<"c", "o", "n", "t", "e", "n", "t", "_", "d", "r", "a", "f",
                         "t", "i", "n", "g">>
ImagePromptGenerationStep == <<"i", "m", "a", "g", "e", "_", "p", "r", "o", "m", "p",
                               "t", "_", "g", "e", "n", "e", "r", "a", "t", "i", "o",
                               "n">>
ContentReviewStep == <<"c", "o", "n", "t", "e", "n", "t", "_", "r", "e", "v", "i",
                       "e", "w">>
FinalizationStep == <<"f", "i", "n", "a", "l", "i", "z", "a", "t", "i", "o", "n">>

\* WorkflowNodes.review_content: the mapping the node returns
NodesReviewContentUpdate(state, r) ==
    IF r.ok
    THEN LET quality_check == PerformQualityCheck(r.content, state["company_info"])
         IN  [final_content |-> IF ~quality_check.is_acceptable
                                THEN Get(state, "draft_content", Empty) \o MarkerReviewed
                                ELSE r.content,
              review_notes |-> quality_check.feedback,
              status |-> "content_reviewed",
              workflow_step |-> ContentReviewStep,
              quality_check_passed |-> quality_check.is_acceptable]
    ELSE [final_content |-> Get(state, "draft_content", Empty) \o MarkerIncomplete,
          review_notes |-> <<"Review failed: ">> \o r.error,
          status |-> "review_limited",
          error |-> r.error,
          workflow_step |-> ContentReviewStep,
          quality_check_passed |-> FALSE]

-----------------------------------------------------------------------------
(* One generate_content coroutine *)

NoOutcome == [pending |-> TRUE]

\* the coroutine object made by calling generate_content(...): body not started
NewRun(company_info, topic, style) ==
    [pc |-> "created", company_info |-> company_info, topic |-> topic, style |-> style,
     state |-> <<>>, update |-> <<>>, executed |-> <<>>, calls |-> <<>>,
     exception |-> None, outcome |-> NoOutcome]

\* the coroutines are driven by the caller's await (generate_content) or by
\* asyncio.gather (generate_multiple_variations)
Scheduled == entry = "generate_content" \/ (entry = "generate_multiple_variations" /\ loop.pc = "gather")

Call(node, r) == [node |-> node, temperature |-> llm.temperature, response |-> r]

\* a plausible slip: the runs share one state mapping, so a node's mapping is
\* merged into the state of every run that is under way
StepSharedState(i, node, update, calls) ==
    runs' = [j \in DOMAIN runs |->
                IF j = i
                THEN [runs[j] EXCEPT !.state = Merge(@, update),
                                     !.update = update,
                                     !.executed = Append(@, node),
                                     !.calls = @ \o calls,
                                     !.pc = NextNode(node)]
                ELSE IF runs[j].pc \in RunningPcs
                     THEN [runs[j] EXCEPT !.state = Merge(@, update)]
                     ELSE runs[j]]

\* a node ran: its mapping is merged and the edge out of the node is followed
Step(i, node, update, calls) ==
    runs' = [runs EXCEPT ![i] =
                [@ EXCEPT !.state = Merge(@, update),
                          !.update = update,
                          !.executed = Append(@, node),
                          !.calls = @ \o calls,
                          !.pc = NextNode(node)]]

\* an exception left a node: the graph's execution raises it into generate_content
Raise(i, node, e, calls) ==
    runs' = [runs EXCEPT ![i] =
                [@ EXCEPT !.executed = Append(@, node),
                          !.calls = @ \o calls,
                          !.exception = e,
                          !.pc = "raised"]]

\* a plausible slip: research_topic lacks the try/except around its call
EscapesFromResearch(node, r) == node = "research_topic" /\ ~r.ok

\* whether the collaborator outcome r leaves the node as an exception: the
\* four nodes wrap the call in `try: ... except Exception`, so none does
Escapes(node, r) == FALSE

\* a node that calls the collaborator ran with outcome r
NodeStep(i, node, r, update) ==
    IF Escapes(node, r)
    THEN Raise(i, node, r.error, <<Call(node, r)>>)
    ELSE Step(i, node, update, <<Call(node, r)>>)

\* generate_content up to `await self.compiled_graph.ainvoke(initial_state.dict())`
Begin(i) ==
    /\ Scheduled
    /\ runs[i].pc = "created"
    /\ runs' = [runs EXCEPT ![i] =
                   [@ EXCEPT !.state = InitialState(runs[i].company_info, runs[i].topic, runs[i].style),
                             !.pc = NextNode("START")]]
    /\ UNCHANGED <<entry, args, llm, loop, returned, fn, appVars>>

research_topic(i) ==
    /\ Scheduled
    /\ runs[i].pc = "research_topic"
    /\ \E r \in Responses :
          NodeStep(i, "research_topic", r, ResearchTopicUpdate(runs[i].state, r))
    /\ UNCHANGED <<entry, args, llm, loop, returned, fn, appVars>>

generate_draft(i) ==
    /\ Scheduled
    /\ runs[i].pc = "generate_draft"
    /\ \E r \in Responses :
          \E hashtags \in (IF r.ok THEN ExtractHashtags(r.content) ELSE {<<>>}) :
             NodeStep(i, "generate_draft", r, GenerateDraftUpdate(runs[i].state, r, hashtags))
    /\ UNCHANGED <<entry, args, llm, loop, returned, fn, appVars>>

generate_image_prompt(i) ==
    /\ Scheduled
    /\ runs[i].pc = "generate_image_prompt"
    /\ \E r \in Responses :
          NodeStep(i, "generate_image_prompt", r, GenerateImagePromptUpdate(runs[i].state, r))
    /\ UNCHANGED <<entry, args, llm, loop, returned, fn, appVars>>

review_content(i) ==
    /\ Scheduled
    /\ runs[i].pc = "review_content"
    /\ \E r \in Responses :
          NodeStep(i, "review_content", r, ReviewContentUpdate(runs[i].state, r))
    /\ UNCHANGED <<entry, args, llm, loop, returned, fn, appVars>>

finalize_content(i) ==
    /\ Scheduled
    /\ runs[i].pc = "finalize_content"
    /\ IF FinalizeRaises(runs[i].state)
       THEN Raise(i, "finalize_content", NoContentGenerated, <<>>)
       ELSE Step(i, "finalize_content", FinalizeContentUpdate(runs[i].state), <<>>)
    /\ UNCHANGED <<entry, args, llm, loop, returned, fn, appVars>>

\* generate_content: the graph returned its final state; the result is built
GenerateContentReturn(i) ==
    /\ Scheduled
    /\ runs[i].pc = "END"
    /\ runs' = [runs EXCEPT ![i] =
                   [@ EXCEPT !.outcome = [raised |-> FALSE,
                                          result |-> SuccessResult(runs[i].state, runs[i].topic, runs[i].style)],
                             !.pc = "done"]]
    /\ UNCHANGED <<entry, args, llm, loop, returned, fn, appVars>>

\* generate_content: `except Exception as e` around the graph's execution
GenerateContentExcept(i) ==
    /\ Scheduled
    /\ runs[i].pc = "raised"
    /\ runs' = [runs EXCEPT ![i] =
                   [@ EXCEPT !.outcome = OutcomeOfRaise(runs[i].exception),
                             !.pc = "done"]]
    /\ UNCHANGED <<entry, args, llm, loop, returned, fn, appVars>>

IdleLoop == [pc |-> "idle", i |-> 0]
NotReturned == [pending |-> TRUE]
NoFn == [name |-> "none"]

\* a caller awaits content_agent.generate_content(company_info, topic, style)
Init ==
    /\ AppIdle
    /\ entry = "generate_content"
    /\ args \in [company_info : CompanyInfos, topic : Topics, style : Styles, variations : {1}]
    /\ runs = <<NewRun(args.company_info, args.topic, args.style)>>
    /\ llm = [temperature |-> DefaultTemperature]
    /\ loop = IdleLoop
    /\ returned = NotReturned
    /\ fn = NoFn

Next ==
    \/ \E i \in 1..Len(runs) : Begin(i)
    \/ \E i \in 1..Len(runs) : research_topic(i)
    \/ \E i \in 1..Len(runs) : generate_draft(i)
    \/ \E i \in 1..Len(runs) : generate_image_prompt(i)
    \/ \E i \in 1..Len(runs) : review_content(i)
    \/ \E i \in 1..Len(runs) : finalize_content(i)
    \/ \E i \in 1..Len(runs) : GenerateContentReturn(i)
    \/ \E i \in 1..Len(runs) : GenerateContentExcept(i)

Spec == Init /\ [][Next]_vars

-----------------------------------------------------------------------------
(* generate_multiple_variations *)

Min(a, b) == IF a < b THEN a ELSE b

IsResult(outcome) == ~outcome.raised

\* the body of `for i in range(variations)`: the temperature is set, the
\* coroutine object is created (its body does not run yet), the temperature
\* is reset
CreateTask ==
    /\ entry = "generate_multiple_variations"
    /\ loop.pc = "loop"
    /\ loop.i < args.variations
    /\ LET original_temp == llm.temperature
           varied == [llm EXCEPT !.temperature =
                         Min(DefaultTemperature + loop.i * TemperatureStep, TemperatureCap)]
       IN  /\ runs' = Append(runs, NewRun(args.company_info, args.topic, args.style))
           /\ llm' = [varied EXCEPT !.temperature = original_temp]
    /\ loop' = [loop EXCEPT !.i = @ + 1]
    /\ UNCHANGED <<entry, args, returned, fn, appVars>>

\* `await asyncio.gather(*tasks, return_exceptions=True)`: the tasks start
StartGather ==
    /\ entry = "generate_multiple_variations"
    /\ loop.pc = "loop"
    /\ loop.i = args.variations
    /\ loop' = [loop EXCEPT !.pc = "gather"]
    /\ UNCHANGED <<entry, args, runs, llm, returned, fn, appVars>>

\* gather returned: the exceptions are filtered out and the list is returned
GatherReturn ==
    /\ entry = "generate_multiple_variations"
    /\ loop.pc = "gather"
    /\ \A i \in 1..Len(runs) : runs[i].pc = "done"
    /\ LET results == [i \in 1..Len(runs) |-> runs[i].outcome]
           valid == SelectSeq(results, IsResult)
       IN  returned' = [raised |-> FALSE,
                        value |-> [k \in 1..Len(valid) |-> valid[k].result]]
    /\ loop' = [loop EXCEPT !.pc = "done"]
    /\ UNCHANGED <<entry, args, runs, llm, fn, appVars>>

\* a caller awaits content_agent.generate_multiple_variations(..., variations)
InitVariations ==
    /\ AppIdle
    /\ entry = "generate_multiple_variations"
    /\ args \in [company_info : CompanyInfos, topic : {TopicAI}, style : Styles,
                 variations : 0..MaxVariations]
    /\ runs = <<>>
    /\ llm = [temperature |-> DefaultTemperature]
    /\ loop = [pc |-> "loop", i |-> 0]
    /\ returned = NotReturned
    /\ fn = NoFn

NextVariations ==
    \/ CreateTask
    \/ StartGather
    \/ \E i \in 1..Len(runs) : Begin(i)
    \/ \E i \in 1..Len(runs) : research_topic(i)
    \/ \E i \in 1..Len(runs) : generate_draft(i)
    \/ \E i \in 1..Len(runs) : generate_image_prompt(i)
    \/ \E i \in 1..Len(runs) : review_content(i)
    \/ \E i \in 1..Len(runs) : finalize_content(i)
    \/ \E i \in 1..Len(runs) : GenerateContentReturn(i)
    \/ \E i \in 1..Len(runs) : GenerateContentExcept(i)
    \/ GatherReturn

SpecVariations == InitVariations /\ [][NextVariations]_vars

-----------------------------------------------------------------------------
(* _extract_hashtags applied to texts *)

\* longest text of the enumerated inputs
MaxTextLen == 4
ExtractAlphabet == {"#", "a", "b", " "}
SixTags == <<"#", "a", "#", "b", "#", "c", "#", "d", "#", "e", "#", "f">>
FiveTagsRepeated == <<"#", "e", " ", "#", "d", " ", "#", "e", "#", "c", " ", "#", "b",
                      "#", "a", "_", "1", " ", "#", "d">>
ExtractInputs ==
    UNION {[1..n -> ExtractAlphabet] : n \in 0..MaxTextLen} \cup {SixTags, FiveTagsRepeated}

\* WorkflowNodes._extract_hashtags(content): list(set(hashtags))[:5]
NodesExtractHashtags(content) ==
    {Take(p, MaxHashtags) : p \in ListOfSet(Range(FindAll(content)))}

InitExtract ==
    /\ AppIdle
    /\ entry = "_extract_hashtags"
    /\ args = [company_info |-> Empty, topic |-> Empty, style |-> "professional", variations |-> 0]
    /\ runs = <<>>
    /\ llm = [temperature |-> DefaultTemperature]
    /\ loop = IdleLoop
    /\ returned = NotReturned
    /\ fn \in [name : {"none"}, content : ExtractInputs]

\* ContentGenerationAgent._extract_hashtags(content)
AgentExtractCall ==
    /\ entry = "_extract_hashtags"
    /\ fn.name = "none"
    /\ \E h \in ExtractHashtags(fn.content) :
          fn' = [name |-> "ContentGenerationAgent._extract_hashtags",
                 content |-> fn.content, output |-> h]
    /\ UNCHANGED <<entry, args, runs, llm, loop, returned, appVars>>

\* WorkflowNodes._extract_hashtags(content)
NodesExtractCall ==
    /\ entry = "_extract_hashtags"
    /\ fn.name = "none"
    /\ \E h \in NodesExtractHashtags(fn.content) :
          fn' = [name |-> "WorkflowNodes._extract_hashtags",
                 content |-> fn.content, output |-> h]
    /\ UNCHANGED <<entry, args, runs, llm, loop, returned, appVars>>

NextExtract == AgentExtractCall \/ NodesExtractCall

SpecExtract == InitExtract /\ [][NextExtract]_vars

-----------------------------------------------------------------------------
(* WorkflowNodes._perform_quality_check and WorkflowNodes.review_content
   applied to candidate texts *)

Dots(n) == [i \in 1..n |-> "."]
\* body followed by filler up to the length n (body alone when it is longer)
Pad(body, n) == IF Len(body) >= n THEN body ELSE body \o Dots(n - Len(body))

CompanyParts == {Empty, <<"W", "e">>, <<"t", "E", "a", "m">>}
EngagementParts == {Empty, <<"?">>, <<"S", "h", "a", "r", "e">>}
HashParts == {Empty, <<"#", "a">>}
QualityLengths == {0, MinContentLength - 1, MinContentLength, MaxContentLength,
                   MaxContentLength + 1}
QualityInputs ==
    {Pad(c \o <<" ">> \o e \o <<" ">> \o h, n) :
        c \in CompanyParts, e \in EngagementParts, h \in HashParts, n \in QualityLengths}

\* the state a Review node of WorkflowNodes is handed, after Draft
StateAtReview(draft) ==
    [InitialState(<<"A", "c", "m", "e">>, TopicAI, "professional")
        EXCEPT !.draft_content = draft, !.status = "image_prompt_created"]

InitQuality ==
    /\ AppIdle
    /\ entry = "review_content"
    /\ args = [company_info |-> <<"A", "c", "m", "e">>, topic |-> TopicAI,
               style |-> "professional", variations |-> 0]
    /\ runs = <<>>
    /\ llm = [temperature |-> DefaultTemperature]
    /\ loop = IdleLoop
    /\ returned = NotReturned
    /\ \E r \in [ok : {TRUE}, content : QualityInputs \cup {ContentBlocks}]
                 \cup [ok : {FALSE}, error : ErrorTexts] :
          fn = [name |-> "none", state |-> StateAtReview(TextHi), response |-> r]

\* await self._perform_quality_check(content, company_info)
PerformQualityCheckCall ==
    /\ entry = "review_content"
    /\ fn.name = "none"
    /\ fn.response.ok
    /\ fn' = [name |-> "_perform_quality_check", state |-> fn.state, response |-> fn.response,
              output |-> PerformQualityCheck(fn.response.content, fn.state["company_info"])]
    /\ UNCHANGED <<entry, args, runs, llm, loop, returned, appVars>>

\* WorkflowNodes.review_content(state) with the collaborator outcome fn.response
NodesReviewContentCall ==
    /\ entry = "review_content"
    /\ fn.name = "none"
    /\ fn' = [name |-> "review_content", state |-> fn.state, response |-> fn.response,
              output |-> NodesReviewContentUpdate(fn.state, fn.response)]
    /\ UNCHANGED <<entry, args, runs, llm, loop, returned, appVars>>

NextQuality == PerformQualityCheckCall \/ NodesReviewContentCall

SpecQuality == InitQuality /\ [][NextQuality]_vars

-----------------------------------------------------------------------------
(* WorkflowNodes: the five nodes, chained along get_workflow_edges *)

ResearchLimited == <<"R", "e", "s", "e", "a", "r", "c", "h", " ", "l", "i", "m", "i",
                     "t", "e", "d", " ", "d", "u", "e", " ", "t", "o", ":", " ">>
ContentGenerationChallenged == <<"C", "o", "n", "t", "e", "n", "t", " ", "g", "e",
                                 "n", "e", "r", "a", "t", "i", "o", "n", " ", "c",
                                 "h", "a", "l", "l", "e", "n", "g", "e", "d", ":",
                                 " ">>
CouldNotBeCompleted == <<"C", "o", "n", "t", "e", "n", "t", " ", "g", "e", "n", "e",
                         "r", "a", "t", "i", "o", "n", " ", "c", "o", "u", "l", "d",
                         " ", "n", "o", "t", " ", "b", "e", " ", "c", "o", "m", "p",
                         "l", "e", "t", "e", "d", " ", "s", "u", "c", "c", "e", "s",
                         "s", "f", "u", "l", "l", "y", ".">>
NoContentGeneratedInWorkflow == <<"N", "o", " ", "c", "o", "n", "t", "e", "n", "t",
                                  " ", "g", "e", "n", "e", "r", "a", "t", "e", "d",
                                  " ", "i", "n", " ", "w", "o", "r", "k", "f", "l",
                                  "o", "w">>

\* the step names _create_workflow_summary looks for
ResearchTopicName == <<"r", "e", "s", "e", "a", "r", "c", "h", "_", "t", "o", "p",
                       "i", "c">>
GenerateDraftName == <<"g", "e", "n", "e", "r", "a", "t", "e", "_", "d", "r", "a",
                       "f", "t">>
GenerateImagePromptName == <<"g", "e", "n", "e", "r", "a", "t", "e", "_", "i", "m",
                             "a", "g", "e", "_", "p", "r", "o", "m", "p", "t">>
ReviewContentName == <<"r", "e", "v", "i", "e", "w", "_", "c", "o", "n", "t", "e",
                       "n", "t">>
TagIndustry == <<"I", "n", "d", "u", "s", "t", "r", "y">>
TagCareer == <<"C", "a", "r", "e", "e", "r">>

\* the fallback list of _generate_appropriate_hashtags
NodesFallbackHashtags == BaseHashtags \o <<TagIndustry, TagCareer>>

\* get_workflow_edges()
WorkflowEdges ==
    [start |-> "research_topic", research_topic |-> "generate_draft",
     generate_draft |-> "generate_image_prompt", generate_image_prompt |-> "review_content",
     review_content |-> "finalize_content", finalize_content |-> "end"]

\* a text that passes all four checks of the quality gate
TextAccepted == Pad(<<"W", "e", "?", " ", "#", "a">>, MinContentLength)

\* what a collaborator call of a WorkflowNodes node can do
NodesResponses ==
    [ok : {TRUE}, content : RichTexts \cup {TextAccepted}] \cup [ok : {FALSE}, error : ErrorTexts]

\* WorkflowNodes.research_topic: the mapping the node returns
NodesResearchTopicUpdate(state, r) ==
    IF r.ok
    THEN [research_notes |-> r.content, status |-> "researched",
          workflow_step |-> TopicResearchStep]
    ELSE [research_notes |-> ResearchLimited \o r.error, status |-> "research_limited",
          error |-> r.error, workflow_step |-> TopicResearchStep]

\* WorkflowNodes.generate_draft: hashtags is the list _extract_hashtags returned
NodesGenerateDraftUpdate(state, r, hashtags) ==
    IF r.ok
    THEN [draft_content |-> r.content, hashtags |-> hashtags, status |-> "draft_generated",
          workflow_step |-> ContentDraftingStep]
    ELSE [draft_content |-> ContentGenerationChallenged \o r.error, hashtags |-> <<>>,
          status |-> "draft_failed", error |-> r.error,
          workflow_step |-> ContentDraftingStep]

\* WorkflowNodes.generate_image_prompt
NodesGenerateImagePromptUpdate(state, r) ==
    IF r.ok
    THEN [image_prompt |-> r.content, status |-> "image_prompt_created",
          workflow_step |-> ImagePromptGenerationStep]
    ELSE [image_prompt |-> ProfessionalImage \o state["topic"],
          status |-> "image_prompt_fallback", error |-> r.error,
          workflow_step |-> ImagePromptGenerationStep]

\* _generate_appropriate_hashtags: extracted is the list _extract_hashtags
\* returned for the collaborator's text
GenerateAppropriateHashtags(r, extracted) ==
    IF r.ok THEN Take(extracted, MaxHashtags) ELSE NodesFallbackHashtags

SummarySteps == <<ResearchTopicName, GenerateDraftName, GenerateImagePromptName,
                  ReviewContentName>>

\* _create_workflow_summary(state)
CreateWorkflowSummary(state) ==
    LET StepDone(step) == Contains(Get(state, "workflow_step", Empty), step)
        steps_completed == SelectSeq(SummarySteps, StepDone)
    IN  [total_steps |-> Len(steps_completed),
         steps_completed |-> steps_completed,
         errors_encountered |-> IF Truthy(Get(state, "error", None))
                                THEN <<state["error"]>> ELSE <<>>,
         final_status |-> Get(state, "status", "unknown"),
         has_image_prompt |-> Truthy(Get(state, "image_prompt", None)),
         hashtags_count |-> Len(Get(state, "hashtags", <<>>)),
         content_length |-> Len(IF Truthy(Get(state, "final_content", Empty))
                                THEN state["final_content"]
                                ELSE Get(state, "draft_content", Empty))]

\* WorkflowNodes.finalize_content: the ValueError is raised inside the try
NodesFinalizeFails(state) == ~Truthy(FinalOrDraft(state))

\* WorkflowNodes.finalize_content: whether _generate_appropriate_hashtags is awaited
NodesFinalizeAsksHashtags(state) ==
    ~NodesFinalizeFails(state) /\ ~Truthy(Get(state, "hashtags", <<>>))

\* WorkflowNodes.finalize_content: the mapping the node returns; generated is
\* the list _generate_appropriate_hashtags returned, when it was awaited
NodesFinalizeContentUpdate(state, generated) ==
    IF NodesFinalizeFails(state)
    THEN [final_content |-> CouldNotBeCompleted, hashtags |-> <<>>, status |-> "failed",
          error |-> NoContentGeneratedInWorkflow, workflow_step |-> FinalizationStep]
    ELSE [final_content |-> FinalOrDraft(state),
          hashtags |-> IF Truthy(Get(state, "hashtags", <<>>))
                       THEN Get(state, "hashtags", <<>>) ELSE generated,
          image_prompt |-> Get(state, "image_prompt", None),
          status |-> "completed",
          workflow_summary |-> CreateWorkflowSummary(state),
          workflow_step |-> FinalizationStep,
          quality_assurance |-> "QUALITY_CHECKLIST"]

\* the nodes are handed the state mapping generate_content builds and are
\* chained along get_workflow_edges
NodesBegin(i) ==
    /\ entry = "WorkflowNodes"
    /\ runs[i].pc = "created"
    /\ runs' = [runs EXCEPT ![i] =
                   [@ EXCEPT !.state = InitialState(runs[i].company_info, runs[i].topic, runs[i].style),
                             !.pc = WorkflowEdges["start"]]]
    /\ UNCHANGED <<entry, args, llm, loop, returned, fn, appVars>>

Nodes_research_topic(i) ==
    /\ entry = "WorkflowNodes"
    /\ runs[i].pc = "research_topic"
    /\ \E r \in NodesResponses :
          Step(i, "research_topic", NodesResearchTopicUpdate(runs[i].state, r),
               <<Call("research_topic", r)>>)
    /\ UNCHANGED <<entry, args, llm, loop, returned, fn, appVars>>

Nodes_generate_draft(i) ==
    /\ entry = "WorkflowNodes"
    /\ runs[i].pc = "generate_draft"
    /\ \E r \in NodesResponses :
          \E hashtags \in (IF r.ok THEN NodesExtractHashtags(r.content) ELSE {<<>>}) :
             Step(i, "generate_draft", NodesGenerateDraftUpdate(runs[i].state, r, hashtags),
                  <<Call("generate_draft", r)>>)
    /\ UNCHANGED <<entry, args, llm, loop, returned, fn, appVars>>

Nodes_generate_image_prompt(i) ==
    /\ entry = "WorkflowNodes"
    /\ runs[i].pc = "generate_image_prompt"
    /\ \E r \in NodesResponses :
          Step(i, "generate_image_prompt", NodesGenerateImagePromptUpdate(runs[i].state, r),
               <<Call("generate_image_prompt", r)>>)
    /\ UNCHANGED <<entry, args, llm, loop, returned, fn, appVars>>

Nodes_review_content(i) ==
    /\ entry = "WorkflowNodes"
    /\ runs[i].pc = "review_content"
    /\ \E r \in NodesResponses :
          Step(i, "review_content", NodesReviewContentUpdate(runs[i].state, r),
               <<Call("review_content", r)>>)
    /\ UNCHANGED <<entry, args, llm, loop, returned, fn, appVars>>

Nodes_finalize_content(i) ==
    /\ entry = "WorkflowNodes"
    /\ runs[i].pc = "finalize_content"
    /\ IF NodesFinalizeAsksHashtags(runs[i].state)
       THEN \E r \in NodesResponses :
               \E extracted \in (IF r.ok THEN NodesExtractHashtags(r.content) ELSE {<<>>}) :
                  Step(i, "finalize_content",
                       NodesFinalizeContentUpdate(runs[i].state,
                                                  GenerateAppropriateHashtags(r, extracted)),
                       <<Call("finalize_content", r)>>)
       ELSE Step(i, "finalize_content", NodesFinalizeContentUpdate(runs[i].state, <<>>), <<>>)
    /\ UNCHANGED <<entry, args, llm, loop, returned, fn, appVars>>

\* a graph built from WorkflowNodes is run on (company_info, topic, style)
InitNodes ==
    /\ AppIdle
    /\ entry = "WorkflowNodes"
    /\ args \in [company_info : CompanyInfos, topic : Topics, style : Styles, variations : {1}]
    /\ runs = <<NewRun(args.company_info, args.topic, args.style)>>
    /\ llm = [temperature |-> DefaultTemperature]
    /\ loop = IdleLoop
    /\ returned = NotReturned
    /\ fn = NoFn

NextNodes ==
    \/ \E i \in 1..Len(runs) : NodesBegin(i)
    \/ \E i \in 1..Len(runs) : Nodes_research_topic(i)
    \/ \E i \in 1..Len(runs) : Nodes_generate_draft(i)
    \/ \E i \in 1..Len(runs) : Nodes_generate_image_prompt(i)
    \/ \E i \in 1..Len(runs) : Nodes_review_content(i)
    \/ \E i \in 1..Len(runs) : Nodes_finalize_content(i)

SpecNodes == InitNodes /\ [][NextNodes]_vars

\* either implementation of the five stages is run
InitStages == Init \/ InitNodes

NextStages == Next \/ NextNodes

SpecStages == InitStages /\ [][NextStages]_vars

-----------------------------------------------------------------------------
(* Properties of generate_content *)

Runs == 1..Len(runs)
Done(i) == runs[i].pc = "done"
Returned(i) == Done(i) /\ ~runs[i].outcome.raised
Result(i) == runs[i].outcome.result

\* the collaborator calls of run i made by `node`
CallsOf(i, node) == {k \in 1..Len(runs[i].calls) : runs[i].calls[k].node = node}
CallFailed(i, node) == \E k \in CallsOf(i, node) : ~runs[i].calls[k].response.ok
CallReturned(i, node, text) ==
    \E k \in CallsOf(i, node) :
        runs[i].calls[k].response.ok /\ runs[i].calls[k].response.content = text

IsPrefix(s, t) == Len(s) <= Len(t) /\ SubSeq(t, 1, Len(s)) = s

\* C1: every result generate_content returns has non-empty final_content or
\* status "failed"; never empty final_content with a non-failed status.
C1_ContentOrFailed ==
    \A i \in Runs :
        Returned(i) => (Truthy(Result(i).final_content) \/ Result(i).status = "failed")

\* C1 witness: Draft and Review both got empty text from the collaborator and
\* the run was returned as failed.
C1_Witness ==
    \E i \in Runs :
        /\ Returned(i)
        /\ CallReturned(i, "generate_draft", Empty)
        /\ CallReturned(i, "review_content", Empty)
        /\ Result(i).status = "failed"
        /\ Truthy(Result(i).final_content)

\* the error the Research collaborator call of run i raised
ResearchError(i) ==
    LET k == CHOOSE k \in CallsOf(i, "research_topic") : TRUE
    IN  runs[i].calls[k].response.error

\* C3: when the Research collaborator call fails, the Research node itself
\* records the failure (fallback notes, status research_failed); Draft,
\* ImagePrompt, Review and Finalize still run, in that order, and the run
\* ends completed or failed.
C3_ResearchFailureContinues ==
    \A i \in Runs :
        CallFailed(i, "research_topic") =>
            /\ runs[i].pc # "raised" \/ runs[i].executed = GraphNodes
            /\ runs[i].pc = "generate_draft" =>
                  /\ runs[i].state["status"] = "research_failed"
                  /\ runs[i].state["research_notes"] = ResearchUnavailable \o ResearchError(i)
            /\ IsPrefix(runs[i].executed, GraphNodes)
            /\ runs[i].pc \in RunningPcs => runs[i].pc = GraphNodes[Len(runs[i].executed) + 1]
            /\ Done(i) =>
                  /\ runs[i].executed = GraphNodes
                  /\ ~runs[i].outcome.raised
                  /\ Result(i).status \in {"completed", "failed"}

\* C3 witness: a finished run whose Research call failed and whose other
\* four stages were executed.
C3_Witness ==
    \E i \in Runs :
        /\ Returned(i)
        /\ CallFailed(i, "research_topic")
        /\ runs[i].executed = GraphNodes
        /\ Result(i).status = "completed"

\* C4: every run executes the five stages once each in the fixed order, and
\* whenever the next stage is about to start (or the graph has ended) the
\* mapping returned by the stage before it is already part of the state.
C4_FiveStagesInOrder ==
    \A i \in Runs :
        /\ IsPrefix(runs[i].executed, GraphNodes)
        /\ runs[i].pc \in RunningPcs => runs[i].pc = GraphNodes[Len(runs[i].executed) + 1]
        /\ runs[i].pc \in {"END", "raised", "done"} => runs[i].executed = GraphNodes
        /\ runs[i].pc \in RunningPcs \cup {"END"} =>
              \A k \in DOMAIN runs[i].update :
                  k \in DOMAIN runs[i].state /\ runs[i].state[k] = runs[i].update[k]

\* C4 witness: a run that reached the end of the graph after all five stages,
\* with the Draft stage's text still in the state.
C4_Witness ==
    \E i \in Runs :
        /\ runs[i].pc = "END"
        /\ runs[i].executed = GraphNodes
        /\ runs[i].state["draft_content"] = TextHi
        /\ runs[i].state["status"] = "completed"

\* the hashtags Finalize found in the state of run i were empty: the Draft
\* call failed or its text held no #word token
NoStageProducedHashtags(i) ==
    \/ CallFailed(i, "generate_draft")
    \/ \E k \in CallsOf(i, "generate_draft") :
          runs[i].calls[k].response.ok /\ FindAll(runs[i].calls[k].response.content) = <<>>

\* C5: a result that is not failed has non-empty hashtags; when no stage
\* produced a hashtag they are LinkedIn, Professional, Business followed by
\* the capitalized first (up to) three words of the topic.
C5_HashtagsNonEmpty ==
    \A i \in Runs :
        (Returned(i) /\ Result(i).status # "failed") =>
            /\ Result(i).hashtags # <<>>
            /\ NoStageProducedHashtags(i) =>
                  LET words == Split(Lower(runs[i].topic))
                      n == IF Len(words) < FallbackTopicWords THEN Len(words) ELSE FallbackTopicWords
                      h == Result(i).hashtags
                  IN  /\ Len(h) = Len(BaseHashtags) + n
                      /\ Len(h) >= Len(BaseHashtags)
                      /\ SubSeq(h, 1, Len(BaseHashtags)) = BaseHashtags
                      /\ \A j \in 1..n : h[Len(BaseHashtags) + j] = Capitalize(words[j])

\* C5 witness: a completed run on the four-word topic whose Draft call failed:
\* six fallback hashtags.
C5_Witness ==
    \E i \in Runs :
        /\ Returned(i)
        /\ Result(i).status = "completed"
        /\ CallFailed(i, "generate_draft")
        /\ runs[i].topic = TopicLong
        /\ Len(Result(i).hashtags) = 6

\* C10: whatever subset of the stage calls raises, generate_content hands its
\* caller a result object; no exception leaves it.
C10_NeverRaises ==
    \A i \in Runs :
        /\ runs[i].outcome # NoOutcome => ~runs[i].outcome.raised
        /\ Done(i) => runs[i].outcome # NoOutcome

\* C10 witness: all four collaborator calls of a run raised and the caller
\* got a result.
C10_Witness ==
    \E i \in Runs :
        /\ Returned(i)
        /\ \A node \in {"research_topic", "generate_draft", "generate_image_prompt",
                        "review_content"} : CallFailed(i, node)

\* the texts a successful Draft or Review call of run i returned, as they are
\* or with a disclaimer marker appended
UsableTexts(i) ==
    LET got == {runs[i].calls[k].response.content :
                   k \in {k \in CallsOf(i, "generate_draft") \cup CallsOf(i, "review_content") :
                             runs[i].calls[k].response.ok}}
    IN  got \cup {text \o m : text \in got, m \in Markers}

\* C6: a completed result carries text returned by a successful Draft or
\* Review call (possibly with the disclaimer marker), never an error
\* placeholder and never the empty string; a run whose collaborator calls all
\* fail is reported failed.
C6_CompletedIsUsable ==
    \A i \in Runs :
        (Returned(i) /\ Result(i).status = "completed") =>
            /\ Result(i).final_content # Empty
            /\ Result(i).final_content \in UsableTexts(i)

\* the state of run i held this draft when its Review node ran
DraftAtReview(i) == runs[i].state["draft_content"]
ReviewRan(i) == Len(runs[i].executed) >= 4 /\ runs[i].pc = "finalize_content"

\* C9: in the Review node the executed graph uses, a rewrite that fails the
\* quality gate is not accepted, and on gate rejection or collaborator
\* failure final_content is the draft with a disclaimer marker appended.
C9_ReviewFallsBackWithMarker ==
    \A i \in Runs :
        ReviewRan(i) =>
            \A k \in CallsOf(i, "review_content") :
                LET r == runs[i].calls[k].response
                    rejected == r.ok /\ ~PerformQualityCheck(r.content, runs[i].company_info).is_acceptable
                IN  (rejected \/ ~r.ok) =>
                        /\ runs[i].state["final_content"] \in {DraftAtReview(i) \o m : m \in Markers}
                        /\ rejected => runs[i].state["final_content"] # r.content

-----------------------------------------------------------------------------
(* Properties of generate_multiple_variations, _extract_hashtags and the
   quality gate *)

\* the graph execution of run i raised (Finalize found no content)
PipelineRaised(i) == runs[i].exception # None

\* C2: when the pipeline run of exactly k of the n variations raises, the
\* returned list has exactly n - k results and the call does not raise.
C2_RaisedRunsDropped ==
    (entry = "generate_multiple_variations" /\ loop.pc = "done") =>
        /\ ~returned.raised
        /\ Len(returned.value) =
              args.variations - Cardinality({i \in Runs : PipelineRaised(i)})

\* C7: _extract_hashtags returns the distinct #word tokens of the text in
\* order of first occurrence, truncated to the first 5.
C7_FirstOccurrenceOrder ==
    (entry = "_extract_hashtags" /\ fn.name # "none") =>
        fn.output = Take(FirstOccurrences(FindAll(fn.content)), MaxHashtags)

\* C8: the quality gate accepts a text exactly when at least 3 of its 4
\* checks pass (company reference, engagement cue, 100 <= length <= 2000,
\* a '#'); with all four the score is 4/4 and it accepts, with two or fewer
\* it rejects.
C8_GateAcceptsThreeOfFour ==
    (entry = "review_content" /\ fn.name = "_perform_quality_check"
        /\ IsText(fn.response.content)) =>
        LET content == fn.response.content
            low == Lower(content)
            company == \E k \in CompanyKeywords : Contains(low, k)
            engagement == \E k \in EngagementKeywords : Contains(low, k)
            length == Len(content) >= 100 /\ Len(content) <= 2000
            hash == \E j \in 1..Len(content) : content[j] = "#"
            n == (IF company THEN 1 ELSE 0) + (IF engagement THEN 1 ELSE 0)
                 + (IF length THEN 1 ELSE 0) + (IF hash THEN 1 ELSE 0)
        IN  /\ fn.output.is_acceptable <=> n >= 3
            /\ fn.output.score = <<n, 4>>
            /\ n = 4 => fn.output.is_acceptable
            /\ n <= 2 => ~fn.output.is_acceptable

\* C8 witness: a text of exactly 100 characters with a company reference and
\* a '#' but no engagement cue was scored 3/4 and accepted.
C8_Witness ==
    /\ entry = "review_content"
    /\ fn.name = "_perform_quality_check"
    /\ Len(fn.response.content) = MinContentLength
    /\ fn.output.score = <<3, 4>>
    /\ ~fn.output.detailed_checks.has_engagement_element
    /\ fn.output.is_acceptable

-----------------------------------------------------------------------------
(* Properties of the stages, in ContentGenerationAgent and in WorkflowNodes *)

\* the stage of run i that ran last
LastStage(i) == runs[i].executed[Len(runs[i].executed)]

\* the status tags each stage writes, in either implementation
StageStatusTags ==
    [research_topic |-> {"researched", "research_failed", "research_limited"},
     generate_draft |-> {"draft_generated", "draft_failed"},
     generate_image_prompt |-> {"image_prompt_generated", "image_prompt_created",
                                "image_prompt_fallback"},
     review_content |-> {"content_reviewed", "review_failed", "review_limited"},
     finalize_content |-> {"completed", "failed"}]

\* the update of a stage of run i has been merged and no later stage has run
StageMerged(i) == runs[i].pc \in RunningPcs \cup {"END"} /\ runs[i].executed # <<>>

\* C11: once a stage's update is merged, status is the tag that stage
\* returned, one of that stage's own outcome tags; it is never the initial
\* value nor a tag of another stage, and a result built from the final state
\* carries Finalize's tag.
C11_StatusOfLastStage ==
    \A i \in Runs :
        /\ StageMerged(i) =>
              /\ "status" \in DOMAIN runs[i].update
              /\ runs[i].state["status"] = runs[i].update["status"]
              /\ runs[i].state["status"] \in StageStatusTags[LastStage(i)]
              /\ runs[i].state["status"] # "started"
              /\ \A n \in DOMAIN StageStatusTags :
                    n # LastStage(i) => runs[i].state["status"] \notin StageStatusTags[n]
        /\ (Returned(i) /\ ~PipelineRaised(i)) => Result(i).status = "completed"

\* C11 witness: Research failed, Draft succeeded, and the state handed to
\* ImagePrompt carries Draft's tag, not Research's failure tag.
C11_Witness ==
    \E i \in Runs :
        /\ runs[i].pc = "generate_image_prompt"
        /\ CallFailed(i, "research_topic")
        /\ ~CallFailed(i, "generate_draft")
        /\ runs[i].state["status"] = "draft_generated"

\* the status tags that end in _failed or _fallback
FailedOrFallbackTags ==
    {"research_failed", "draft_failed", "review_failed", "research_fallback",
     "draft_fallback", "image_prompt_fallback", "review_fallback"}

\* the field each collaborator stage produces
ProducedField ==
    [research_topic |-> "research_notes", generate_draft |-> "draft_content",
     generate_image_prompt |-> "image_prompt", review_content |-> "final_content"]

\* the outcome of the collaborator call the last stage of run i made
LastResponse(i) ==
    LET k == CHOOSE k \in CallsOf(i, LastStage(i)) : TRUE
    IN  runs[i].calls[k].response

\* the last stage of run i was one of the four collaborator stages and its
\* call raised
LastStageFailed(i) ==
    /\ StageMerged(i)
    /\ LastStage(i) \in DOMAIN ProducedField
    /\ ~LastResponse(i).ok

\* the fallback values of a stage whose call raised e, in either implementation
FallbackValues(i, e) ==
    CASE LastStage(i) = "research_topic" -> {ResearchUnavailable \o e, ResearchLimited \o e}
      [] LastStage(i) = "generate_draft" ->
            {ContentGenerationFailed \o e, ContentGenerationChallenged \o e}
      [] LastStage(i) = "generate_image_prompt" -> {ProfessionalImage \o runs[i].topic}
      [] LastStage(i) = "review_content" ->
            {runs[i].state["draft_content"], runs[i].state["draft_content"] \o MarkerIncomplete}

\* the error and the fallback value of the update of a failed stage
FailureRecorded(i) ==
    /\ "error" \in DOMAIN runs[i].update
    /\ runs[i].update["error"] = LastResponse(i).error
    /\ ProducedField[LastStage(i)] \in DOMAIN runs[i].update
    /\ runs[i].update[ProducedField[LastStage(i)]] \in FallbackValues(i, LastResponse(i).error)

\* C12: in ContentGenerationAgent and in WorkflowNodes, the update of a stage
\* whose collaborator call failed has a status ending in _failed or
\* _fallback, has error set to the failure description and carries the
\* stage's fallback value.
C12_FailureIsTagged ==
    \A i \in Runs :
        LastStageFailed(i) =>
            /\ runs[i].update["status"] \in FailedOrFallbackTags
            /\ FailureRecorded(i)

\* every failure or fallback tag a stage writes
FailureTags == FailedOrFallbackTags \cup {"research_limited", "review_limited"}

\* the last stage of run i was a collaborator stage whose call returned ""
LastStageGotEmpty(i) ==
    /\ StageMerged(i)
    /\ LastStage(i) \in DOMAIN ProducedField
    /\ LastResponse(i).ok
    /\ LastResponse(i).content = Empty

\* C13: a stage whose collaborator call returns empty text without raising
\* returns its fallback update (failure or fallback status, error set) and
\* does not accept the empty text under its success status.
C13_EmptyTextIsFailure ==
    \A i \in Runs :
        LastStageGotEmpty(i) =>
            /\ runs[i].update["status"] \in FailureTags
            /\ "error" \in DOMAIN runs[i].update
            /\ runs[i].update[ProducedField[LastStage(i)]] # Empty

\* neither final_content nor draft_content of the state of run i is non-empty
NoContentInState(i) ==
    /\ ~Truthy(Get(runs[i].state, "final_content", None))
    /\ ~Truthy(Get(runs[i].state, "draft_content", None))

\* the collaborator outcomes that leave Finalize without content: Draft
\* returned "" and Review returned "" or raised
NoContentFromCalls(i) ==
    /\ CallReturned(i, "generate_draft", Empty)
    /\ CallReturned(i, "review_content", Empty) \/ CallFailed(i, "review_content")

-----------------------------------------------------------------------------
(* Properties of concurrent runs *)

\* the mapping the n-th node of the graph returns for `state`, given the
\* outcomes `calls` of the collaborator calls and the list h that
\* _extract_hashtags returned
UpdateAlone(state, n, calls, h) ==
    CASE GraphNodes[n] = "research_topic" -> ResearchTopicUpdate(state, calls[n].response)
      [] GraphNodes[n] = "generate_draft" -> GenerateDraftUpdate(state, calls[n].response, h)
      [] GraphNodes[n] = "generate_image_prompt" ->
            GenerateImagePromptUpdate(state, calls[n].response)
      [] GraphNodes[n] = "review_content" -> ReviewContentUpdate(state, calls[n].response)
      [] GraphNodes[n] = "finalize_content" -> FinalizeContentUpdate(state)

\* the state a run executed alone has after the nodes n..last, started in
\* `state`; a Finalize that raises merges nothing
RECURSIVE RunAlone(_, _, _, _, _)
RunAlone(state, n, last, calls, h) ==
    IF n > last THEN state
    ELSE IF GraphNodes[n] = "finalize_content" /\ FinalizeRaises(state) THEN state
    ELSE RunAlone(Merge(state, UpdateAlone(state, n, calls, h)), n + 1, last, calls, h)

\* the state a run executed alone has after its first n nodes
StateAlone(initial, n, calls, h) == RunAlone(initial, 1, n, calls, h)

\* the result a run executed alone returns after all five nodes
ResultAlone(initial, topic, style, calls, h) ==
    LET final_state == StateAlone(initial, Len(GraphNodes), calls, h)
    IN  IF final_state["status"] = "completed"
        THEN SuccessResult(final_state, topic, style)
        ELSE FailedResult(NoContentGenerated)

\* the lists _extract_hashtags can have returned to the Draft node of run i
DraftHashtagLists(i) ==
    IF \E k \in CallsOf(i, "generate_draft") : runs[i].calls[k].response.ok
    THEN ExtractHashtags(runs[i].calls[CHOOSE k \in CallsOf(i, "generate_draft") : TRUE].response.content)
    ELSE {<<>>}

\* C15: under every interleaving of the variation runs, the state of each
\* run is what that run alone would have after the same collaborator
\* outcomes, a run that failed neither aborts nor changes a sibling, and each
\* run's result is what the run would return alone.
C15_RunsAreIsolated ==
    /\ \A i \in Runs :
          LET initial == InitialState(args.company_info, args.topic, args.style)
          IN  /\ runs[i].pc \in RunningPcs \cup {"END", "raised"} =>
                    \E h \in DraftHashtagLists(i) :
                        runs[i].state = StateAlone(initial, Len(runs[i].executed), runs[i].calls, h)
              /\ Done(i) =>
                    /\ ~runs[i].outcome.raised
                    /\ \E h \in DraftHashtagLists(i) :
                           Result(i) = ResultAlone(initial, args.topic, args.style, runs[i].calls, h)
    /\ (entry = "generate_multiple_variations" /\ loop.pc = "done") =>
          /\ ~returned.raised
          /\ Len(returned.value) = args.variations
          /\ \A i \in Runs : returned.value[i] = Result(i)

\* C15 witness: two variations were gathered; the first failed at Finalize,
\* its sibling completed and both results were returned.
C15_Witness ==
    /\ entry = "generate_multiple_variations"
    /\ loop.pc = "done"
    /\ Len(runs) = 2
    /\ PipelineRaised(1)
    /\ Result(1).status = "failed"
    /\ Result(2).status = "completed"
    /\ returned.value = <<Result(1), Result(2)>>

-----------------------------------------------------------------------------
(* Properties of the result object *)

MinResultHashtags == 3

\* C16: every completed result has at least 3 and at most 5 hashtags,
\* whether they were extracted from the draft or produced by Finalize's
\* fallback.
C16_ThreeToFiveHashtags ==
    \A i \in Runs :
        (Returned(i) /\ Result(i).status = "completed") =>
            /\ Len(Result(i).hashtags) >= MinResultHashtags
            /\ Len(Result(i).hashtags) <= MaxHashtags

\* the keys the metadata of a result is to have
MetadataKeys == {"topic", "style", "content_length", "generated_at", "workflow_steps"}

\* C17: the metadata of every result, completed or failed, holds the run's
\* topic, style, content length, a timestamp and the names of the stages the
\* run executed.
C17_MetadataComplete ==
    \A i \in Runs :
        Returned(i) =>
            /\ MetadataKeys \subseteq DOMAIN Result(i).metadata
            /\ Result(i).metadata.topic = runs[i].topic
            /\ Result(i).metadata.style = runs[i].style
            /\ Result(i).metadata.workflow_steps = runs[i].executed

-----------------------------------------------------------------------------
(* Frame properties of the stages *)

\* the draft_content the Draft node of run i returned
DraftWritten(i) ==
    LET r == runs[i].calls[CHOOSE k \in CallsOf(i, "generate_draft") : TRUE].response
    IN  IF r.ok THEN r.content
        ELSE IF entry = "WorkflowNodes" THEN ContentGenerationChallenged \o r.error
        ELSE ContentGenerationFailed \o r.error

\* the Draft node of run i has run
DraftRan(i) == Len(runs[i].executed) >= 2

\* a node of run i returned in this step and its mapping was merged
NodeMerged(i) ==
    /\ runs[i].pc \in RunningPcs
    /\ runs'[i].pc \in RunningPcs \cup {"END"}
    /\ runs'[i].executed # runs[i].executed

\* the merge changed exactly the fields of the node's mapping
ExactlyUpdateChanged(i) ==
    /\ DOMAIN runs'[i].state = DOMAIN runs[i].state \cup DOMAIN runs'[i].update
    /\ \A k \in DOMAIN runs'[i].update : runs'[i].state[k] = runs'[i].update[k]
    /\ \A k \in DOMAIN runs[i].state \ DOMAIN runs'[i].update :
          runs'[i].state[k] = runs[i].state[k]

CallerFields == {"company_info", "topic", "style"}

\* C19: in every state of a run company_info, topic and style are the values
\* the caller supplied, and no mapping returned by a stage, on a success or
\* a failure path, names one of them.
C19_CallerFieldsKept ==
    \A i \in Runs :
        /\ runs[i].pc \in RunningPcs \cup {"END", "raised"} =>
              /\ CallerFields \subseteq DOMAIN runs[i].state
              /\ runs[i].state["company_info"] = args.company_info
              /\ runs[i].state["topic"] = args.topic
              /\ runs[i].state["style"] = args.style
        /\ DOMAIN runs[i].update \cap CallerFields = {}

\* C19 witness: all five nodes of WorkflowNodes ran, every collaborator call
\* raised, and the mixed-case topic is still the caller's.
C19_Witness ==
    \E i \in Runs :
        /\ entry = "WorkflowNodes"
        /\ runs[i].pc = "END"
        /\ \A node \in DOMAIN ProducedField : CallFailed(i, node)
        /\ args.topic = TopicAI
        /\ runs[i].state["topic"] = TopicAI

-----------------------------------------------------------------------------
(* The ImagePrompt fallback *)

\* f"Professional business image related to {state['topic']}" for run i
ImageFallback(i) == ProfessionalImage \o runs[i].topic

\* the ImagePrompt stage of run i, whose collaborator call raised, wrote the
\* templated prompt and its fallback tag, Review ran next, and the prompt
\* stays in the state up to the end of the graph
ImageFallbackKept(i) ==
    /\ Len(runs[i].executed) = 3 =>
          /\ runs[i].pc = "review_content"
          /\ runs[i].update["image_prompt"] = ImageFallback(i)
          /\ runs[i].update["status"] = "image_prompt_fallback"
          /\ runs[i].state["status"] = "image_prompt_fallback"
    /\ (Len(runs[i].executed) >= 3 /\ runs[i].pc \in RunningPcs \cup {"END", "raised"}) =>
          runs[i].state["image_prompt"] = ImageFallback(i)

\* C20: when the ImagePrompt collaborator call fails the stage writes
\* "Professional business image related to {topic}" and status
\* image_prompt_fallback, Review runs next, and the terminal result carries
\* that image_prompt.
C20_FallbackInEveryResult ==
    \A i \in Runs :
        CallFailed(i, "generate_image_prompt") =>
            /\ ImageFallbackKept(i)
            /\ Done(i) => Result(i).image_prompt = ImageFallback(i)

\* the part of C20 that holds: the stage behaves as stated and a completed
\* result carries the fallback image_prompt; the failed result built after
\* Finalize raised has none.
FallbackInCompletedResult ==
    \A i \in Runs :
        CallFailed(i, "generate_image_prompt") =>
            /\ ImageFallbackKept(i)
            /\ Done(i) =>
                  /\ ~runs[i].outcome.raised
                  /\ Result(i).status = "completed" => Result(i).image_prompt = ImageFallback(i)
                  /\ Result(i).status = "failed" => Result(i).image_prompt = None

-----------------------------------------------------------------------------
(* The Review node of WorkflowNodes when the scorer fails *)

\* C21: when _perform_quality_check fails internally while scoring a
\* rewrite, it reports the rewrite acceptable, and review_content returns the
\* rewrite as final_content, not the draft with a marker.
C21_ScorerFailsOpen ==
    (entry = "review_content" /\ fn.name # "none" /\ fn.response.ok
        /\ ~IsText(fn.response.content)) =>
        /\ fn.name = "_perform_quality_check" =>
              /\ fn.output.is_acceptable
              /\ fn.output.score = <<1, 2>>
        /\ fn.name = "review_content" =>
              /\ fn.output["final_content"] = fn.response.content
              /\ fn.output["final_content"] \notin
                    {Get(fn.state, "draft_content", Empty) \o m : m \in Markers}
              /\ fn.output["quality_check_passed"]
              /\ fn.output["status"] = "content_reviewed"

\* C21 witness: the collaborator returned content blocks, the scorer raised
\* on them and the Review node returned the blocks as final_content.
C21_Witness ==
    /\ entry = "review_content"
    /\ fn.name = "review_content"
    /\ fn.response.ok
    /\ fn.response.content = ContentBlocks
    /\ fn.output["final_content"] = ContentBlocks
    /\ fn.output["review_notes"] = <<"Quality check incomplete: ">> \o ErrNoLower

-----------------------------------------------------------------------------
(* Finalize *)

\* the Finalize node of run i returns in this step
FinalizeReturns(i) == runs[i].pc = "finalize_content" /\ runs'[i].pc = "END"

\* C22: Finalize makes the reviewed final_content the terminal final_content
\* when it is non-empty and the draft_content otherwise; a non-empty reviewed
\* text is never replaced by the draft.
C22_FinalizePrefersReviewed ==
    [][\A i \in Runs :
          FinalizeReturns(i) =>
              /\ Truthy(runs[i].state["final_content"]) =>
                    runs'[i].state["final_content"] = runs[i].state["final_content"]
              /\ ~Truthy(runs[i].state["final_content"]) =>
                    runs'[i].state["final_content"] = runs[i].state["draft_content"]
              /\ Truthy(runs'[i].state["final_content"])]_vars

\* C22 witness: Draft returned one text, Review another, and the state at
\* the end of the graph carries the reviewed one.
C22_Witness ==
    \E i \in Runs :
        /\ runs[i].pc = "END"
        /\ entry = "generate_content"
        /\ CallReturned(i, "generate_draft", TextHi)
        /\ CallReturned(i, "review_content", TextTags)
        /\ runs[i].state["draft_content"] = TextHi
        /\ runs[i].state["final_content"] = TextTags

\* the Finalize node of WorkflowNodes found no hashtags in the state of run
\* i and awaited _generate_appropriate_hashtags
AskedForHashtags(i) == CallsOf(i, "finalize_content") # {}

\* C23: when WorkflowNodes.finalize_content returns status completed its
\* hashtags are non-empty, also when the state had none, whatever the
\* hashtag collaborator call returned.
C23_NodesHashtagsNonEmpty ==
    \A i \in Runs :
        (entry = "WorkflowNodes" /\ runs[i].pc = "END"
            /\ runs[i].update["status"] = "completed") =>
            /\ runs[i].update["hashtags"] # <<>>
            /\ runs[i].state["hashtags"] # <<>>

-----------------------------------------------------------------------------
(* Sampling temperature of the variations *)

\* min(0.7 + (i * 0.1), 0.9) for the 0-based variation i, in tenths
VariationTemperature(i) == Min(DefaultTemperature + i * TemperatureStep, TemperatureCap)

\* C24: in generate_multiple_variations every collaborator call of the
\* 0-based variation i is made with temperature min(0.7 + 0.1*i, 0.9),
\* under every interleaving of the runs on the shared client.
C24_TemperaturePerVariation ==
    entry = "generate_multiple_variations" =>
        \A i \in Runs :
            \A k \in 1..Len(runs[i].calls) :
                runs[i].calls[k].temperature = VariationTemperature(i - 1)

-----------------------------------------------------------------------------
(* The workflow summary of WorkflowNodes *)

\* C25: the workflow summary built at Finalize, after Research, Draft,
\* ImagePrompt and Review have run, lists those four stages as
\* steps_completed and has total_steps 4.
C25_SummaryListsSteps ==
    \A i \in Runs :
        (entry = "WorkflowNodes" /\ runs[i].pc = "END"
            /\ "workflow_summary" \in DOMAIN runs[i].update) =>
            /\ runs[i].update["workflow_summary"].steps_completed = SummarySteps
            /\ runs[i].update["workflow_summary"].total_steps = Len(SummarySteps)

-----------------------------------------------------------------------------
(* The web application: app/api/routes/content.py, app/api/routes/approval.py,
   app/services/telegram_service.py, app/services/linkedin_service.py and the
   tables of app/models/database.py.  A route runs without interruption up to
   its next await; the background posting task is interrupted while it awaits
   linkedin_service.post_content.  Every request is made for the one user
   "default_user" that the routes default to. *)

MaxContents == 1
MaxRequests == 3

\* ContentStatusDB
DRAFT == "draft"
PENDING_APPROVAL == "pending_approval"
APPROVED == "approved"
EDITED_APPROVED == "edited_approved"
REJECTED == "rejected"
POSTED == "posted"
FAILED == "failed"

\* responses of the routes
HTTP_200_OK == 200
HTTP_201_CREATED == 201
HTTP_400_BAD_REQUEST == 400
HTTP_404_NOT_FOUND == 404
HTTP_500_INTERNAL_SERVER_ERROR == 500

\* session.query(Content)...first() found nothing
NoRow == [deleted |-> TRUE]
\* image_urls[0] of the images image_service.generate_images returned
GeneratedImage == <<"u", "r", "l", "0">>
\* f"image_{image_index}" for the first image button
ImageChoice == <<"i", "m", "a", "g", "e", "_", "0">>
\* a text the user sends in edit mode
EditedText == <<"E", "d">>

ContentIds == 1..MaxContents

\* the result of a run whose Draft returned TextHi and whose Finalize returned
CompletedResult ==
    LET state == [InitialState(<<"A", "c", "m", "e">>, TopicAI, "professional")
                     EXCEPT !.draft_content = TextHi]
    IN SuccessResult(Merge(state, FinalizeContentUpdate(state)), TopicAI, "professional")

\* what content_agent.generate_content hands to the routes
AgentResults == {CompletedResult, FailedResult(NoContentGenerated)}

\* the row of content_id in the contents table
ContentRow(cid) ==
    IF cid \in 1..Len(db.contents) THEN db.contents[cid] ELSE NoRow

\* the rows of linkedin_posts with this content_id
PostsOf(cid) ==
    {k \in 1..Len(db.linkedin_posts) : db.linkedin_posts[k].content_id = cid}

Served(endpoint, cid, code) ==
    Append(http, [endpoint |-> endpoint, content_id |-> cid, status_code |-> code])

\* approve_content: `if approval_request.approved:` ... else, on the row found
ApprovedRow(row, request) ==
    IF request.approved
    THEN [row EXCEPT
             !.content_text = IF Truthy(request.edits) THEN request.edits ELSE @,
             !.status = IF Truthy(request.edits) THEN EDITED_APPROVED ELSE APPROVED,
             !.image_url = IF Truthy(request.image_choice) THEN request.image_choice ELSE @]
    ELSE [row EXCEPT !.status = REJECTED]

\* background_tasks.add_task(post_to_linkedin_background, content_id, user_id,
\*                           content_text=..., image_url=...)
NewTask(cid, row) ==
    [content_id |-> cid, content_text |-> row.content_text,
     image_url |-> row.image_url, pc |-> "queued", post_result |-> "none"]

\* POST /approval/approve
approve_content(request) ==
    /\ entry = "app"
    /\ Len(http) < MaxRequests
    /\ LET cid == request.content_id
           row == ContentRow(cid)
       IN IF row = NoRow
          THEN /\ http' = Served(IF request.approved THEN "approve" ELSE "reject",
                                 cid, HTTP_404_NOT_FOUND)
               /\ UNCHANGED <<db, background_tasks>>
          ELSE /\ db' = [db EXCEPT !.contents[cid] = ApprovedRow(row, request)]
               /\ background_tasks' =
                      IF request.approved
                      THEN Append(background_tasks, NewTask(cid, ApprovedRow(row, request)))
                      ELSE background_tasks
               /\ http' = Served(IF request.approved THEN "approve" ELSE "reject",
                                 cid, HTTP_200_OK)
    /\ UNCHANGED <<entry, args, runs, llm, loop, returned, fn, linkedin, telegram>>

ApprovalRequests ==
    [content_id : ContentIds, approved : BOOLEAN, edits : {None, EditedText},
     image_choice : {None, ImageChoice}]

\* a client calls the approval route
ApproveContentRoute ==
    \E request \in ApprovalRequests :
        /\ approve_content(request)
        /\ UNCHANGED user_sessions

\* the content ids on the buttons of the messages sent for approval
SentIds == {telegram[k].content_id : k \in 1..Len(telegram)}

\* self.user_sessions[user_id].pop('editing_content_id', None) after a success
EditSessionAfter(succeeded) ==
    IF succeeded THEN [c \in {} |-> 0] ELSE user_sessions

LastServedOk == http'[Len(http')].status_code = HTTP_200_OK

\* TelegramService._handle_approval: the Approve button
HandleApproval ==
    \E cid \in SentIds :
        /\ approve_content([content_id |-> cid, approved |-> TRUE, edits |-> None,
                            image_choice |-> None])
        /\ user_sessions' = EditSessionAfter(LastServedOk)

\* TelegramService._handle_rejection: the Reject button
HandleRejection ==
    \E cid \in SentIds :
        /\ approve_content([content_id |-> cid, approved |-> FALSE, edits |-> None,
                            image_choice |-> None])
        /\ UNCHANGED user_sessions

\* TelegramService._handle_edit_request: the Edit button
HandleEditRequest ==
    \E cid \in SentIds :
        /\ entry = "app"
        /\ user_sessions' = [c \in {"editing_content_id"} |-> cid]
        /\ user_sessions' # user_sessions
        /\ UNCHANGED <<entry, args, runs, llm, loop, returned, fn, db,
                       background_tasks, linkedin, telegram, http>>

\* TelegramService._handle_message in edit mode, then _handle_edited_content
HandleMessage ==
    /\ "editing_content_id" \in DOMAIN user_sessions
    /\ approve_content([content_id |-> user_sessions["editing_content_id"],
                        approved |-> TRUE, edits |-> EditedText, image_choice |-> None])
    /\ user_sessions' = EditSessionAfter(LastServedOk)

\* TelegramService._handle_image_selection: an image button
HandleImageSelection ==
    \E k \in 1..Len(telegram) :
        /\ telegram[k].image_buttons
        /\ approve_content([content_id |-> telegram[k].content_id, approved |-> TRUE,
                            edits |-> None, image_choice |-> ImageChoice])
        /\ UNCHANGED user_sessions

\* POST /content/generate, after `await content_agent.generate_content(...)`
RouteGenerateContent ==
    \E agent_result \in AgentResults, image_required \in BOOLEAN :
        /\ entry = "app"
        /\ Len(http) < MaxRequests
        /\ Len(db.contents) < MaxContents
        /\ LET content_id == Len(db.contents) + 1
           IN IF ~Truthy(agent_result.final_content)
              THEN /\ http' = Served("generate", 0, HTTP_500_INTERNAL_SERVER_ERROR)
                   /\ UNCHANGED <<db, telegram>>
              ELSE /\ db' = [db EXCEPT !.contents =
                                Append(@, [content_text |-> agent_result.final_content,
                                           image_url |-> IF image_required
                                                         THEN GeneratedImage ELSE None,
                                           status |-> PENDING_APPROVAL])]
                   /\ telegram' = Append(telegram,
                                    [content_id |-> content_id,
                                     content |-> agent_result.final_content,
                                     image_buttons |-> image_required])
                   /\ http' = Served("generate", content_id, HTTP_201_CREATED)
        /\ UNCHANGED <<entry, args, runs, llm, loop, returned, fn, background_tasks,
                       user_sessions, linkedin>>

\* POST /content/{content_id}/regenerate, after the agent returned
RouteRegenerateContent ==
    \E cid \in ContentIds, agent_result \in AgentResults :
        /\ entry = "app"
        /\ Len(http) < MaxRequests
        /\ IF ContentRow(cid) = NoRow
           THEN /\ http' = Served("regenerate", cid, HTTP_404_NOT_FOUND)
                /\ UNCHANGED <<db, telegram>>
           ELSE IF ~Truthy(agent_result.final_content)
           THEN /\ http' = Served("regenerate", cid, HTTP_500_INTERNAL_SERVER_ERROR)
                /\ UNCHANGED <<db, telegram>>
           ELSE /\ db' = [db EXCEPT !.contents[cid].content_text =
                                        agent_result.final_content]
                /\ telegram' = Append(telegram,
                                 [content_id |-> cid,
                                  content |-> agent_result.final_content,
                                  image_buttons |-> FALSE])
                /\ http' = Served("regenerate", cid, HTTP_200_OK)
        /\ UNCHANGED <<entry, args, runs, llm, loop, returned, fn, background_tasks,
                       user_sessions, linkedin>>

\* DELETE /content/{content_id}
delete_content ==
    \E cid \in ContentIds :
        /\ entry = "app"
        /\ Len(http) < MaxRequests
        /\ IF ContentRow(cid) = NoRow
           THEN /\ http' = Served("delete", cid, HTTP_404_NOT_FOUND)
                /\ UNCHANGED db
           ELSE IF ContentRow(cid).status = POSTED
           THEN /\ http' = Served("delete", cid, HTTP_400_BAD_REQUEST)
                /\ UNCHANGED db
           ELSE /\ db' = [db EXCEPT !.contents[cid] = NoRow]
                /\ http' = Served("delete", cid, HTTP_200_OK)
        /\ UNCHANGED <<entry, args, runs, llm, loop, returned, fn, background_tasks,
                       user_sessions, linkedin, telegram>>

\* session.commit() of the posting task: the UPDATE of the contents row and
\* the INSERT into linkedin_posts, whose content_id is unique; on an error the
\* session is rolled back and nothing is written
CommitPost(tables, cid, status, posted_successfully) ==
    IF cid \in 1..Len(tables.contents) /\ tables.contents[cid] # NoRow
       /\ \A k \in 1..Len(tables.linkedin_posts) : tables.linkedin_posts[k].content_id # cid
    THEN [ok |-> TRUE,
          tables |-> [contents |-> [tables.contents EXCEPT ![cid].status = status],
                      linkedin_posts |-> Append(tables.linkedin_posts,
                                           [content_id |-> cid,
                                            posted_successfully |-> posted_successfully])]]
    ELSE [ok |-> FALSE, tables |-> tables]

\* post_to_linkedin_background, up to `await linkedin_service.post_content(...)`
post_to_linkedin_background(t) ==
    /\ entry = "app"
    /\ t \in 1..Len(background_tasks)
    /\ background_tasks[t].pc = "queued"
    /\ IF ContentRow(background_tasks[t].content_id) = NoRow
       THEN /\ background_tasks' = [background_tasks EXCEPT ![t].pc = "done"]
            /\ UNCHANGED linkedin
       ELSE /\ background_tasks' = [background_tasks EXCEPT ![t].pc = "post_content"]
            /\ linkedin' = Append(linkedin,
                              [content_id |-> background_tasks[t].content_id,
                               content |-> background_tasks[t].content_text,
                               image_url |-> background_tasks[t].image_url,
                               served |-> Len(http)])
    /\ UNCHANGED <<entry, args, runs, llm, loop, returned, fn, db, user_sessions,
                   telegram, http>>

\* post_to_linkedin_background from the return of post_content, which hands
\* back a mapping with "success" True or, having caught its own error, with
\* "success" False and the "error"; the task reads neither key
PostContentReturns(t) ==
    \E post_result \in {"success", "error"} :
        /\ entry = "app"
        /\ t \in 1..Len(background_tasks)
        /\ background_tasks[t].pc = "post_content"
        /\ LET cid == background_tasks[t].content_id
               posted == CommitPost(db, cid, POSTED, TRUE)
               failed == CommitPost(db, cid, FAILED, FALSE)
           IN db' = IF posted.ok THEN posted.tables
                    ELSE IF failed.ok THEN failed.tables
                    ELSE db
        /\ background_tasks' = [background_tasks EXCEPT ![t].pc = "done",
                                                        ![t].post_result = post_result]
        /\ UNCHANGED <<entry, args, runs, llm, loop, returned, fn, user_sessions,
                       linkedin, telegram, http>>

Tasks == 1..MaxRequests

\* the server starts with empty tables
InitApp ==
    /\ entry = "app"
    /\ args = [company_info |-> <<"A", "c", "m", "e">>, topic |-> TopicAI,
               style |-> "professional", variations |-> 0]
    /\ runs = <<>>
    /\ llm = [temperature |-> DefaultTemperature]
    /\ loop = IdleLoop
    /\ returned = NotReturned
    /\ fn = NoFn
    /\ db = [contents |-> <<>>, linkedin_posts |-> <<>>]
    /\ background_tasks = <<>>
    /\ user_sessions = [c \in {} |-> 0]
    /\ linkedin = <<>>
    /\ telegram = <<>>
    /\ http = <<>>

NextApp ==
    \/ RouteGenerateContent
    \/ RouteRegenerateContent
    \/ ApproveContentRoute
    \/ delete_content
    \/ HandleApproval
    \/ HandleRejection
    \/ HandleEditRequest
    \/ HandleMessage
    \/ HandleImageSelection
    \/ \E t \in Tasks : post_to_linkedin_background(t)
    \/ \E t \in Tasks : PostContentReturns(t)

SpecApp == InitApp /\ [][NextApp]_vars

\* a queued task is run, and the call to LinkedIn comes back
SpecAppFair ==
    /\ SpecApp
    /\ \A t \in Tasks : WF_vars(post_to_linkedin_background(t))
    /\ \A t \in Tasks : WF_vars(PostContentReturns(t))

-----------------------------------------------------------------------------
(* Properties of the approval and posting workflow *)

\* a rejection of content cid is among the first n requests served
RejectionServed(cid, n) ==
    \E k \in 1..n : http[k] = [endpoint |-> "reject", content_id |-> cid,
                               status_code |-> HTTP_200_OK]

\* C26: once a rejection of a content item has been processed, post_content
\* is not called for the item any more and its status does not become POSTED,
\* whatever approvals, image selections, edit-mode messages or queued posting
\* tasks follow.
C26_RejectedIsNeverPosted ==
    \A cid \in ContentIds :
        /\ \A k \in 1..Len(linkedin) :
               linkedin[k].content_id = cid => ~RejectionServed(cid, linkedin[k].served)
        /\ (RejectionServed(cid, Len(http)) /\ ContentRow(cid) # NoRow) =>
               ContentRow(cid).status # POSTED

\* linkedin_service.post_content has been called with the text of content cid
PostContentCalled(cid) == \E k \in 1..Len(linkedin) : linkedin[k].content_id = cid

\* the row of content cid was stored and has been deleted
Deleted(cid) == cid \in 1..Len(db.contents) /\ db.contents[cid] = NoRow

\* C27: deletion only removes content that has not been posted: no content
\* row is deleted whose text has been, or is being, posted to LinkedIn, under
\* any interleaving of delete_content with the posting task.
C27_PostedIsNeverDeleted ==
    \A cid \in ContentIds : Deleted(cid) => ~PostContentCalled(cid)

\* the calls of linkedin_service.post_content made for content cid
PostContentCalls(cid) == {k \in 1..Len(linkedin) : linkedin[k].content_id = cid}

\* C28: post_content is invoked at most once per content item, under any
\* sequence and interleaving of approvals (with or without edits or image
\* choice) and posting tasks.
C28_PostedAtMostOnce ==
    \A cid \in ContentIds : Cardinality(PostContentCalls(cid)) <= 1

\* the final_content of the results whose status is failed
FailedContents == {r.final_content : r \in {x \in AgentResults : x.status = "failed"}}

\* C29: the final_content of a generation result with status failed is never
\* stored as content with status PENDING_APPROVAL and never sent to Telegram
\* for approval, by the generate route or by the regenerate route.
C29_FailedIsNotSubmitted ==
    /\ \A cid \in ContentIds :
           (ContentRow(cid) # NoRow /\ ContentRow(cid).status = PENDING_APPROVAL) =>
               ContentRow(cid).content_text \notin FailedContents
    /\ \A k \in 1..Len(telegram) : telegram[k].content \notin FailedContents

\* content cid is approved and not yet posted
AwaitingPost(cid) ==
    ContentRow(cid) # NoRow /\ ContentRow(cid).status \in {APPROVED, EDITED_APPROVED}

\* the status of content cid tells how the posting ended, and the row of
\* linkedin_posts agrees
Settled(cid) ==
    /\ ContentRow(cid) # NoRow
    /\ \/ /\ ContentRow(cid).status = POSTED
          /\ \E k \in PostsOf(cid) : db.linkedin_posts[k].posted_successfully
       \/ /\ ContentRow(cid).status = FAILED
          /\ \E k \in PostsOf(cid) : ~db.linkedin_posts[k].posted_successfully

\* the approval was withdrawn: the content was rejected or deleted afterwards
Withdrawn(cid) == ContentRow(cid) = NoRow \/ ContentRow(cid).status = REJECTED

\* C30: after an approval of an existing content item, when the queued
\* posting task runs and the LinkedIn call comes back, the status eventually
\* becomes POSTED or FAILED with a matching linkedin_posts row; it does not
\* stay APPROVED or EDITED_APPROVED forever.
C30_ApprovedIsSettled ==
    \A cid \in ContentIds : AwaitingPost(cid) ~> (Settled(cid) \/ Withdrawn(cid))

====
